---------------------------- MODULE Spec2Model ----------------------------
(***************************************************************************)
(* Model of pgn4people_poc_demo/process_pgn_file.py: the pipeline that     *)
(* extracts the movetext of game 1, strips balanced-brace annotations and  *)
(* tokenizes the remainder.                                                *)
(*                                                                         *)
(* A Python string is a sequence of one-character strings.  Indices are    *)
(* Python's (0-based); s[j] of the source is s[j + 1] here.  An optional   *)
(* value (a Python None, a function that has not returned) is a sequence   *)
(* of length 0 or 1: None is << >>, a value v is << v >>.                  *)
(***************************************************************************)
EXTENDS Integers, Sequences, FiniteSets

VARIABLES
    pc,                              \* position in the code being run
    string_read_from_file,           \* argument of clean_and_parse_string_read_from_file
    start_index,                     \* result of the boundary locator (optional)
    end_index,                       \*   "
    movetext_string,                 \* returned by extract_game_1_movetext (optional)
    pgnstring,                       \* local of the pipeline / argument of tokenize_pgnstring
    tokenlist,                       \* returned token list (optional)
    string_to_strip,                 \* argument of strip_balanced_braces_from_string
    list_of_substrings,              \* accumulator of retained substrings
    beginning_of_current_substring,  \* outer cursor
    index_after_first_left_brace,    \* argument of skip_over_remainder_of_balanced_expression
    net_left_braces,                 \* depth counter of the inner loop
    base_index_for_search,           \* inner probe
    index_found,                     \* index of the delimiter found by the last scan
    stripped_string,                 \* returned stripped string (optional)
    string_to_scan,                  \* argument of a direct scan_for_next_brace call
    index_to_start_scan,             \*   "
    search_result,                   \* its returned 3-tuple (optional)
    fault,                           \* the fault handed to the fault reporter (optional)
    pass,                            \* which application of the stripper is running
    first_result                     \* result of the first application (optional)

vars == << pc, string_read_from_file, start_index, end_index, movetext_string,
           pgnstring, tokenlist,
           string_to_strip, list_of_substrings, beginning_of_current_substring,
           index_after_first_left_brace, net_left_braces, base_index_for_search,
           index_found, stripped_string, string_to_scan, index_to_start_scan,
           search_result, fault, pass, first_result >>

pipelineVars == << string_read_from_file, start_index, end_index, movetext_string,
                   pgnstring, tokenlist >>
stripVars == << string_to_strip, list_of_substrings, beginning_of_current_substring,
                index_after_first_left_brace, net_left_braces, base_index_for_search,
                index_found, stripped_string >>
scanVars == << string_to_scan, index_to_start_scan, search_result >>
harnessVars == << pass, first_result >>

(***************************************************************************)
(* Bounds of the model.                                                    *)
(***************************************************************************)
MaxStripLen == 7
MaxScanLen == 6
MaxTokLen == 5
MaxTextLen == 5

(***************************************************************************)
(* Python values.                                                          *)
(***************************************************************************)
None == << >>
Some(v) == << v >>

left_brace == "{"
right_brace == "}"

\* The characters str.split() and str.lstrip() treat as whitespace.
Whitespace == {" ", "\t", "\n", "\r", "\f"}

\* The class A-Za-z of the regular expression.
Letters == {"A", "B", "C", "D", "E", "F", "G", "H", "I", "J", "K", "L", "M",
            "N", "O", "P", "Q", "R", "S", "T", "U", "V", "W", "X", "Y", "Z",
            "a", "b", "c", "d", "e", "f", "g", "h", "i", "j", "k", "l", "m",
            "n", "o", "p", "q", "r", "s", "t", "u", "v", "w", "x", "y", "z"}

SeqsUpTo(A, n) == UNION {[1..k -> A] : k \in 0..n}

\* s[start:end] for non-negative start and end.
Slice(s, start, end) ==
    LET lo == IF start > Len(s) THEN Len(s) ELSE start
        hi == IF end > Len(s) THEN Len(s) ELSE end
    IN  IF hi <= lo THEN << >> ELSE SubSeq(s, lo + 1, hi)

find_skipping_start(s, ch, start) ==
    LET hits == {j \in (start + 1)..(Len(s) - 1) : s[j + 1] = ch}
    IN  IF hits = {} THEN -1 ELSE CHOOSE j \in hits : \A h \in hits : j <= h

\* s.find(ch, start) for a one-character ch and a non-negative start.
RECURSIVE Find(_, _, _)
Find(s, ch, start) ==
    IF start >= Len(s) THEN -1
    ELSE IF s[start + 1] = ch THEN start
    ELSE Find(s, ch, start + 1)

\* "".join(list)
RECURSIVE Join(_)
Join(list) ==
    IF list = << >> THEN << >> ELSE Head(list) \o Join(Tail(list))

\* s.lstrip()
RECURSIVE LStrip(_)
LStrip(s) ==
    IF s # << >> /\ Head(s) \in Whitespace THEN LStrip(Tail(s)) ELSE s

(***************************************************************************)
(* The fault reporter: it receives the fault (its kind and, where the      *)
(* message embeds one, the offending index) and never returns, so the      *)
(* caller stops where it called it.                                        *)
(***************************************************************************)
fatal_pgn_error(kind, detail) == Some([kind |-> kind, index |-> detail])

(***************************************************************************)
(* scan_for_next_brace                                                     *)
(***************************************************************************)
value_if_no_brace_found == -1

ScanResult(i, r, l) == [index_found |-> i, is_right_brace |-> r, is_left_brace |-> l]

scan_for_next_brace_prefers_left(s, k, lb, rb) ==
    LET index_left_brace_found == Find(s, lb, k)
        index_right_brace_found == Find(s, rb, k)
    IN  IF index_left_brace_found = -1
        THEN IF index_right_brace_found = -1
             THEN ScanResult(value_if_no_brace_found, FALSE, FALSE)
             ELSE ScanResult(index_right_brace_found, TRUE, FALSE)
        ELSE ScanResult(index_left_brace_found, FALSE, TRUE)

scan_for_next_brace(s, k, lb, rb) ==
    LET index_left_brace_found == Find(s, lb, k)
        index_right_brace_found == Find(s, rb, k)
    IN  IF index_right_brace_found = -1
        THEN IF index_left_brace_found = -1
             THEN ScanResult(value_if_no_brace_found, FALSE, FALSE)
             ELSE ScanResult(index_left_brace_found, FALSE, TRUE)
        ELSE IF index_left_brace_found = -1
             THEN ScanResult(index_right_brace_found, TRUE, FALSE)
             ELSE IF index_right_brace_found < index_left_brace_found
                  THEN ScanResult(index_right_brace_found, TRUE, FALSE)
                  ELSE ScanResult(index_left_brace_found, FALSE, TRUE)

(***************************************************************************)
(* strip_balanced_braces_from_string                                       *)
(***************************************************************************)
save_current_substring(list, s, start, end) ==
    IF end >= start THEN Append(list, Slice(s, start, end)) ELSE list

\* End of the retained substring when no further brace is found (line 229).
end_at_len_minus_one(s) == Len(s) - 1
end_of_string(s) == Len(s)

\* End of the retained substring before a left brace (line 239).
end_after_left_brace(i) == i + 1
end_before_left_brace(i) == i

\* The outer cursor after a balanced expression ending at index i (line 247).
cursor_two_after_expression(i) == i + 2
cursor_after_expression(i) == i + 1

\* The index reported for an unmatched left brace (line 200).
reported_index_after_left_brace(i) == i
reported_unmatched_index(i) == i - 1

\* The imbalance after a right brace (line 204).
net_unchanged_by_right_brace(n) == n
net_after_right_brace(n) == n - 1

\* The inner probe after the delimiter found at index i (line 210).
probe_at_delimiter(i) == i
probe_after_delimiter(i) == i + 1

\* Entry of the function: lines 154 and 218.
EnterStrip(s) ==
    /\ string_to_strip' = s
    /\ list_of_substrings' = << >>
    /\ beginning_of_current_substring' = 0
    /\ index_after_first_left_brace' = 0
    /\ net_left_braces' = 0
    /\ base_index_for_search' = 0
    /\ index_found' = 0
    /\ stripped_string' = None

OuterScan ==
    scan_for_next_brace(string_to_strip, beginning_of_current_substring,
                        left_brace, right_brace)

\* The while condition of line 219 is false: join and return.
StripLoopExit ==
    /\ pc = "outer"
    /\ ~(beginning_of_current_substring < Len(string_to_strip))
    /\ stripped_string' = Some(Join(list_of_substrings))
    /\ pc' = "strip_returned"
    /\ UNCHANGED << string_to_strip, list_of_substrings, beginning_of_current_substring,
                    index_after_first_left_brace, net_left_braces,
                    base_index_for_search, index_found >>
    /\ UNCHANGED << pipelineVars, scanVars, harnessVars, fault >>

\* Lines 222-225: a right brace is found at top-level balance.
StripExcessRightBrace ==
    /\ pc = "outer"
    /\ beginning_of_current_substring < Len(string_to_strip)
    /\ OuterScan.is_right_brace
    /\ index_found' = OuterScan.index_found
    /\ fault' = fatal_pgn_error("UnexpectedClosingDelimiter",
                                Some(OuterScan.index_found))
    /\ pc' = "fault"
    /\ UNCHANGED << string_to_strip, list_of_substrings, beginning_of_current_substring,
                    index_after_first_left_brace, net_left_braces,
                    base_index_for_search, stripped_string >>
    /\ UNCHANGED << pipelineVars, scanVars, harnessVars >>

\* Lines 226-231 and 251-252: no more braces; save the rest, break, join, return.
StripNoMoreBraces ==
    /\ pc = "outer"
    /\ beginning_of_current_substring < Len(string_to_strip)
    /\ ~OuterScan.is_right_brace
    /\ OuterScan.index_found = -1
    /\ index_found' = OuterScan.index_found
    /\ list_of_substrings' =
         save_current_substring(list_of_substrings, string_to_strip,
                                beginning_of_current_substring,
                                end_of_string(string_to_strip))
    /\ stripped_string' = Some(Join(list_of_substrings'))
    /\ pc' = "strip_returned"
    /\ UNCHANGED << string_to_strip, beginning_of_current_substring,
                    index_after_first_left_brace, net_left_braces,
                    base_index_for_search >>
    /\ UNCHANGED << pipelineVars, scanVars, harnessVars, fault >>

\* Lines 232-247 up to the call, and lines 188-190 of the callee.
StripLeftBrace ==
    /\ pc = "outer"
    /\ beginning_of_current_substring < Len(string_to_strip)
    /\ ~OuterScan.is_right_brace
    /\ OuterScan.index_found # -1
    /\ OuterScan.is_left_brace
    /\ index_found' = OuterScan.index_found
    /\ list_of_substrings' =
         save_current_substring(list_of_substrings, string_to_strip,
                                beginning_of_current_substring,
                                end_before_left_brace(OuterScan.index_found))
    /\ index_after_first_left_brace' = OuterScan.index_found + 1
    /\ net_left_braces' = 1
    /\ base_index_for_search' = OuterScan.index_found + 1
    /\ pc' = "skip"
    /\ UNCHANGED << string_to_strip, beginning_of_current_substring, stripped_string >>
    /\ UNCHANGED << pipelineVars, scanVars, harnessVars, fault >>

InnerScan ==
    scan_for_next_brace(string_to_strip, base_index_for_search, left_brace, right_brace)

\* Lines 192-201: no further brace while the expression is still open.
SkipUnmatched ==
    /\ pc = "skip"
    /\ net_left_braces > 0
    /\ InnerScan.index_found = -1
    /\ index_found' = InnerScan.index_found
    /\ fault' = fatal_pgn_error("UnmatchedOpeningDelimiter",
                                Some(reported_unmatched_index(index_after_first_left_brace)))
    /\ pc' = "fault"
    /\ UNCHANGED << string_to_strip, list_of_substrings, beginning_of_current_substring,
                    index_after_first_left_brace, net_left_braces,
                    base_index_for_search, stripped_string >>
    /\ UNCHANGED << pipelineVars, scanVars, harnessVars >>

\* Lines 192-195, 202-204, 210: a right brace decreases the imbalance.
SkipRightBrace ==
    /\ pc = "skip"
    /\ net_left_braces > 0
    /\ InnerScan.index_found # -1
    /\ InnerScan.is_right_brace
    /\ index_found' = InnerScan.index_found
    /\ net_left_braces' = net_after_right_brace(net_left_braces)
    /\ base_index_for_search' = probe_after_delimiter(InnerScan.index_found)
    /\ UNCHANGED << pc, string_to_strip, list_of_substrings,
                    beginning_of_current_substring, index_after_first_left_brace,
                    stripped_string >>
    /\ UNCHANGED << pipelineVars, scanVars, harnessVars, fault >>

\* Lines 192-195, 205-207, 210: a left brace increases the imbalance.
SkipLeftBrace ==
    /\ pc = "skip"
    /\ net_left_braces > 0
    /\ InnerScan.index_found # -1
    /\ ~InnerScan.is_right_brace
    /\ InnerScan.is_left_brace
    /\ index_found' = InnerScan.index_found
    /\ net_left_braces' = net_left_braces + 1
    /\ base_index_for_search' = probe_after_delimiter(InnerScan.index_found)
    /\ UNCHANGED << pc, string_to_strip, list_of_substrings,
                    beginning_of_current_substring, index_after_first_left_brace,
                    stripped_string >>
    /\ UNCHANGED << pipelineVars, scanVars, harnessVars, fault >>

\* The while condition of line 192 is false: return index_found (line 214) and
\* assign the outer cursor (line 247).
SkipReturn ==
    /\ pc = "skip"
    /\ ~(net_left_braces > 0)
    /\ beginning_of_current_substring' = cursor_after_expression(index_found)
    /\ pc' = "outer"
    /\ UNCHANGED << string_to_strip, list_of_substrings, index_after_first_left_brace,
                    net_left_braces, base_index_for_search, index_found,
                    stripped_string >>
    /\ UNCHANGED << pipelineVars, scanVars, harnessVars, fault >>

StripStep ==
    \/ StripLoopExit
    \/ StripExcessRightBrace
    \/ StripNoMoreBraces
    \/ StripLeftBrace
    \/ SkipUnmatched
    \/ SkipRightBrace
    \/ SkipLeftBrace
    \/ SkipReturn

(***************************************************************************)
(* The stripper applied to a string, and then to its own result.           *)
(***************************************************************************)
StripChars == {"{", "}", "a", "b"}

\* Section 8 of the specification's examples.
NestedExample ==
    << "b", "e", "f", "o", "r", "e", "{", "a", "{", "b", "{", "c", "}", "d", "}",
       "e", "}", "a", "f", "t", "e", "r" >>
AdjacentExample == << "a", "{", "x", "}", "{", "y", "}", "b" >>
UnclosedExample ==
    << "t", "e", "x", "t", "{", "u", "n", "c", "l", "o", "s", "e", "d" >>
ExcessExample == << "t", "e", "x", "t", "}" >>

StripInputs ==
    SeqsUpTo(StripChars, MaxStripLen)
        \cup {NestedExample, AdjacentExample, UnclosedExample, ExcessExample}

PipelineIdle ==
    /\ string_read_from_file = << >>
    /\ start_index = None
    /\ end_index = None
    /\ movetext_string = None
    /\ pgnstring = << >>
    /\ tokenlist = None

StripIdle ==
    /\ string_to_strip = << >>
    /\ list_of_substrings = << >>
    /\ beginning_of_current_substring = 0
    /\ index_after_first_left_brace = 0
    /\ net_left_braces = 0
    /\ base_index_for_search = 0
    /\ index_found = 0
    /\ stripped_string = None

ScanIdle ==
    /\ string_to_scan = << >>
    /\ index_to_start_scan = 0
    /\ search_result = None

HarnessIdle ==
    /\ pass = 1
    /\ first_result = None

InitStrip ==
    /\ PipelineIdle
    /\ ScanIdle
    /\ HarnessIdle
    /\ fault = None
    /\ pc = "outer"
    /\ string_to_strip \in StripInputs
    /\ list_of_substrings = << >>
    /\ beginning_of_current_substring = 0
    /\ index_after_first_left_brace = 0
    /\ net_left_braces = 0
    /\ base_index_for_search = 0
    /\ index_found = 0
    /\ stripped_string = None

\* The result of the first application becomes the argument of the second.
Reapply ==
    /\ pc = "strip_returned"
    /\ pass = 1
    /\ pass' = 2
    /\ first_result' = stripped_string
    /\ EnterStrip(stripped_string[1])
    /\ pc' = "outer"
    /\ UNCHANGED << pipelineVars, scanVars, fault >>

NextStrip == StripStep \/ Reapply

SpecStrip == InitStrip /\ [][NextStrip]_vars

\* One application of the stripper; the code runs to its end without waiting,
\* so a step that can be taken is taken.
SpecStripFair == InitStrip /\ [][StripStep]_vars /\ WF_vars(StripStep)

(***************************************************************************)
(* scan_for_next_brace called on its own.                                  *)
(***************************************************************************)
ScanInputs == SeqsUpTo(StripChars, MaxScanLen)

InitScan ==
    /\ PipelineIdle
    /\ StripIdle
    /\ HarnessIdle
    /\ fault = None
    /\ pc = "scan"
    /\ string_to_scan \in ScanInputs
    /\ index_to_start_scan \in 0..Len(string_to_scan)
    /\ search_result = None

ScanCall ==
    /\ pc = "scan"
    /\ search_result' = Some(scan_for_next_brace(string_to_scan, index_to_start_scan,
                                                 left_brace, right_brace))
    /\ pc' = "scan_returned"
    /\ UNCHANGED << string_to_scan, index_to_start_scan >>
    /\ UNCHANGED << pipelineVars, stripVars, harnessVars, fault >>

NextScan == ScanCall

SpecScan == InitScan /\ [][NextScan]_vars

(***************************************************************************)
(* tokenize_pgnstring and strip_leading_movenumber_indication              *)
(***************************************************************************)
\* Length of the leading run of non-whitespace characters of s.
RECURSIVE BurstLen(_)
BurstLen(s) ==
    IF s = << >> \/ Head(s) \in Whitespace THEN 0 ELSE 1 + BurstLen(Tail(s))

\* s.split(): the maximal runs of non-whitespace characters, in order.
RECURSIVE Split(_)
Split(s) ==
    LET t == LStrip(s)
        n == BurstLen(t)
    IN  IF t = << >> THEN << >>
        ELSE << SubSeq(t, 1, n) >> \o Split(SubSeq(t, n + 1, Len(t)))

\* Membership in the character class [^A-Za-z()] of line 102.
matches_non_alpha(c) == c \notin Letters
matches_leading_class(c) == c \notin (Letters \cup {"(", ")"})

\* regex_pattern.sub("", string_to_strip) for the pattern ^[^A-Za-z()]+
RECURSIVE strip_leading_movenumber_indication(_)
strip_leading_movenumber_indication(string_to_strip_arg) ==
    IF string_to_strip_arg # << >> /\ matches_leading_class(Head(string_to_strip_arg))
    THEN strip_leading_movenumber_indication(Tail(string_to_strip_arg))
    ELSE string_to_strip_arg

tokenize_pgnstring(s) ==
    LET bursts == Split(s)
        stripped == [i \in 1..Len(bursts) |->
                        strip_leading_movenumber_indication(bursts[i])]
    IN  SelectSeq(stripped, LAMBDA token : token # << >>)

TokChars == {" ", "\n", "1", "e", "(", ")"}

\* Section 8 of the specification's examples.
ExportFormatExample ==
    << "1", ".", "e", "4", " ", "e", "5", " ", "2", ".", "N", "f", "3", " ",
       "N", "c", "6" >>
SeparatedNumberExample == << "1", ".", " ", "e", "4", " ", "e", "5" >>
ParenExample ==
    << "1", "2", ".", "Q", "d", "2", " ", "(", "1", "2", ".", ".", ".", "Q", "d", "2",
       " ", "R", "a", "e", "8", ")", " ", "1", "3", ".", "O", "-", "O" >>

TokInputs ==
    SeqsUpTo(TokChars, MaxTokLen)
        \cup {ExportFormatExample, SeparatedNumberExample, ParenExample}

InitTokenize ==
    /\ StripIdle
    /\ ScanIdle
    /\ HarnessIdle
    /\ fault = None
    /\ pc = "tokenize"
    /\ string_read_from_file = << >>
    /\ start_index = None
    /\ end_index = None
    /\ movetext_string = None
    /\ pgnstring \in TokInputs
    /\ tokenlist = None

\* Lines 31-33, and lines 60-89 of the callee.
Tokenize ==
    /\ pc = "tokenize"
    /\ tokenlist' = Some(tokenize_pgnstring(pgnstring))
    /\ pc' = "tokenized"
    /\ UNCHANGED << string_read_from_file, start_index, end_index, movetext_string,
                    pgnstring >>
    /\ UNCHANGED << stripVars, scanVars, harnessVars, fault >>

NextTokenize == Tokenize

SpecTokenize == InitTokenize /\ [][NextTokenize]_vars

(***************************************************************************)
(* clean_and_parse_string_read_from_file and extract_game_1_movetext       *)
(***************************************************************************)
TextChars == {" ", "{", "}", "e"}

Texts == SeqsUpTo(TextChars, MaxTextLen)

\* What id_text_between_first_two_blankish_lines may return for one of the
\* two indices: None, or an index into the text.
LocatorResults(text) == {None} \cup {Some(i) : i \in 0..Len(text)}

extract_game_1_movetext_to_end(text, start, end) ==
    LStrip(Slice(text, start[1], Len(text)))

\* Lines 48-56, reached with start_index not None.
extract_game_1_movetext(text, start, end) ==
    LStrip(IF end = None
           THEN Slice(text, start[1], Len(text))
           ELSE Slice(text, start[1], end[1]))

\* "not pgnstring" of line 27.
is_at_most_one_character(s) == Len(s) <= 1
is_falsy(s) == s = << >>

InitPipeline ==
    /\ StripIdle
    /\ ScanIdle
    /\ HarnessIdle
    /\ fault = None
    /\ pc = "extract"
    /\ string_read_from_file \in Texts
    /\ start_index \in LocatorResults(string_read_from_file)
    /\ end_index \in LocatorResults(string_read_from_file)
    /\ movetext_string = None
    /\ pgnstring = << >>
    /\ tokenlist = None

\* Lines 23, 43-46: no blank-ish line after the headers.
ExtractFault ==
    /\ pc = "extract"
    /\ start_index = None
    /\ fault' = fatal_pgn_error("MissingHeaderSeparator", None)
    /\ pc' = "fault"
    /\ UNCHANGED << pipelineVars, stripVars, scanVars, harnessVars >>

\* Lines 23, 43-56: the movetext is returned; line 25 calls the stripper on it.
ExtractMovetext ==
    /\ pc = "extract"
    /\ start_index # None
    /\ movetext_string' =
         Some(extract_game_1_movetext(string_read_from_file, start_index, end_index))
    /\ pgnstring' = movetext_string'[1]
    /\ EnterStrip(pgnstring')
    /\ pc' = "outer"
    /\ UNCHANGED << string_read_from_file, start_index, end_index, tokenlist >>
    /\ UNCHANGED << scanVars, harnessVars, fault >>

\* Lines 25-28: the stripper returned the empty string.
StripReturnsEmpty ==
    /\ pc = "strip_returned"
    /\ pgnstring' = stripped_string[1]
    /\ is_falsy(pgnstring')
    /\ fault' = fatal_pgn_error("EmptyMovetext", None)
    /\ pc' = "fault"
    /\ UNCHANGED << string_read_from_file, start_index, end_index, movetext_string,
                    tokenlist >>
    /\ UNCHANGED << stripVars, scanVars, harnessVars >>

\* Lines 25-27: the stripper returned a non-empty string.
StripReturnsMovetext ==
    /\ pc = "strip_returned"
    /\ pgnstring' = stripped_string[1]
    /\ ~is_falsy(pgnstring')
    /\ pc' = "tokenize"
    /\ UNCHANGED << string_read_from_file, start_index, end_index, movetext_string,
                    tokenlist >>
    /\ UNCHANGED << stripVars, scanVars, harnessVars, fault >>

Init == InitPipeline

Next ==
    \/ ExtractFault
    \/ ExtractMovetext
    \/ StripStep
    \/ StripReturnsEmpty
    \/ StripReturnsMovetext
    \/ Tokenize

Spec == Init /\ [][Next]_vars

(***************************************************************************)
(* Reference notions for the claims about the stripper, stated on the      *)
(* argument string alone.                                                  *)
(***************************************************************************)
Count(s, ch, n) == Cardinality({i \in 1..n : s[i] = ch})

\* Brace depth after the first n characters of s.
DepthAfter(s, n) == Count(s, left_brace, n) - Count(s, right_brace, n)

Balanced(s) ==
    /\ \A n \in 0..Len(s) : DepthAfter(s, n) >= 0
    /\ DepthAfter(s, Len(s)) = 0

\* Positions (1-based) of the characters at depth 0 that are not braces.
TopLevelPositions(s) ==
    {i \in 1..Len(s) : /\ s[i] \notin {left_brace, right_brace}
                       /\ DepthAfter(s, i - 1) = 0}

TopLevelText(s) ==
    LET K == TopLevelPositions(s)
        nth(k) == CHOOSE i \in K : Cardinality({j \in K : j < i}) = k - 1
    IN  [k \in 1..Cardinality(K) |-> s[nth(k)]]

\* The '{' at index i is reached at top-level balance and never closed.
UnmatchedOpenAt(s, i) ==
    /\ s[i + 1] = left_brace
    /\ \A n \in 0..i : DepthAfter(s, n) >= 0
    /\ DepthAfter(s, i) = 0
    /\ \A n \in (i + 1)..Len(s) : DepthAfter(s, n) >= 1

\* The '}' at index j is the first position at which the closing braces
\* outnumber the opening ones.
ExcessCloseAt(s, j) ==
    /\ s[j + 1] = right_brace
    /\ \A n \in 0..j : DepthAfter(s, n) >= 0
    /\ DepthAfter(s, j + 1) < 0

StripEnded == pc \in {"strip_returned", "fault"}

\* C1: on every input with balanced braces the stripper returns exactly the
\* characters of the input at brace depth 0 that are not braces, in their
\* original order.
C1_BalancedInputYieldsTopLevelText ==
    (StripEnded /\ Balanced(string_to_strip))
        => stripped_string = Some(TopLevelText(string_to_strip))

C1_Witness ==
    /\ pc = "strip_returned"
    /\ string_to_strip = NestedExample
    /\ stripped_string = Some(<< "b", "e", "f", "o", "r", "e", "a", "f", "t", "e", "r" >>)

\* C2: a string returned by the stripper contains no brace of either kind, and
\* every brace of the input is among the removed characters.
C2_ResultHasNoBrace ==
    pc = "strip_returned" =>
        /\ \A i \in 1..Len(stripped_string[1]) :
               stripped_string[1][i] \notin {left_brace, right_brace}
        /\ Len(stripped_string[1])
               + Count(string_to_strip, left_brace, Len(string_to_strip))
               + Count(string_to_strip, right_brace, Len(string_to_strip))
             <= Len(string_to_strip)

C2_Witness ==
    /\ pc = "strip_returned"
    /\ string_to_strip = AdjacentExample
    /\ stripped_string = Some(<< "a", "b" >>)

\* C3: when the annotation opened by the top-level '{' at index i is still open
\* at the end of the string, the fault UnmatchedOpeningDelimiter is reported
\* with exactly index i, and no string is returned; the fault is reported in no
\* other case.
C3_UnmatchedOpeningReportsTopLevelIndex ==
    StripEnded =>
        /\ \A i \in 0..(Len(string_to_strip) - 1) :
               UnmatchedOpenAt(string_to_strip, i) =>
                   /\ pc = "fault"
                   /\ fault = Some([kind |-> "UnmatchedOpeningDelimiter", index |-> Some(i)])
                   /\ stripped_string = None
        /\ (fault # None /\ fault[1].kind = "UnmatchedOpeningDelimiter") =>
               /\ fault[1].index # None
               /\ fault[1].index[1] \in 0..(Len(string_to_strip) - 1)
               /\ UnmatchedOpenAt(string_to_strip, fault[1].index[1])

C3_Witness ==
    /\ pc = "fault"
    /\ string_to_strip = << "a", "{", "b", "{", "}" >>
    /\ fault = Some([kind |-> "UnmatchedOpeningDelimiter", index |-> Some(1)])
    /\ stripped_string = None

\* C4: when a '}' is found at top-level balance, the fault
\* UnexpectedClosingDelimiter is reported with exactly the index of that '}',
\* the first position at which the closing braces outnumber the opening ones,
\* and no string is returned; the fault is reported in no other case.
C4_ExcessClosingReportsItsIndex ==
    StripEnded =>
        /\ \A j \in 0..(Len(string_to_strip) - 1) :
               ExcessCloseAt(string_to_strip, j) =>
                   /\ pc = "fault"
                   /\ fault = Some([kind |-> "UnexpectedClosingDelimiter", index |-> Some(j)])
                   /\ stripped_string = None
        /\ (fault # None /\ fault[1].kind = "UnexpectedClosingDelimiter") =>
               /\ fault[1].index # None
               /\ fault[1].index[1] \in 0..(Len(string_to_strip) - 1)
               /\ ExcessCloseAt(string_to_strip, fault[1].index[1])

C4_Witness ==
    /\ pc = "fault"
    /\ string_to_strip = << "{", "a", "}", "{", "}", "b", "}" >>
    /\ fault = Some([kind |-> "UnexpectedClosingDelimiter", index |-> Some(6)])
    /\ stripped_string = None

\* C7: the stripper applied to its own result reports no fault and returns
\* that result unchanged.
C7_StripIsIdempotent ==
    (pass = 2 /\ StripEnded) =>
        /\ pc = "strip_returned"
        /\ string_to_strip = first_result[1]
        /\ stripped_string = first_result

C7_Witness ==
    /\ pass = 2
    /\ pc = "strip_returned"
    /\ first_result = Some(<< "a", "b" >>)
    /\ stripped_string = Some(<< "a", "b" >>)

(***************************************************************************)
(* Reference notions for the claims about the tokenizer, stated by         *)
(* positions (1-based) of the argument string.                             *)
(***************************************************************************)
LetterOrParen == Letters \cup {"(", ")"}

\* << a, b >>: s[a..b] is a maximal run of non-whitespace characters.
Bursts(s) ==
    {ab \in (1..Len(s)) \X (1..Len(s)) :
        /\ ab[1] <= ab[2]
        /\ \A i \in ab[1]..ab[2] : s[i] \notin Whitespace
        /\ ab[1] = 1 \/ s[ab[1] - 1] \in Whitespace
        /\ ab[2] = Len(s) \/ s[ab[2] + 1] \in Whitespace}

\* << p, b >>: a burst ends at b and p is its first letter or parenthesis.
TokenSpans(s) ==
    {pb \in (1..Len(s)) \X (1..Len(s)) :
        \E ab \in Bursts(s) :
            /\ ab[2] = pb[2]
            /\ pb[1] \in ab[1]..ab[2]
            /\ s[pb[1]] \in LetterOrParen
            /\ \A i \in ab[1]..(pb[1] - 1) : s[i] \notin LetterOrParen}

ExpectedTokens(s) ==
    LET K == TokenSpans(s)
        nth(k) == CHOOSE pb \in K : Cardinality({q \in K : q[1] < pb[1]}) = k - 1
    IN  [k \in 1..Cardinality(K) |-> SubSeq(s, nth(k)[1], nth(k)[2])]

HasParen(token) == \E i \in 1..Len(token) : token[i] \in {"(", ")"}

\* C5: a parenthesis written against a move is emitted as its own token and the
\* move as a token carrying neither the parenthesis nor a move-number prefix;
\* on the example the tokens include "(", "Qd2", "Rae8", ")", "O-O" in that order.
C5_ParenthesesAreOwnTokens ==
    pc = "tokenized" =>
        /\ \A i \in 1..Len(tokenlist[1]) :
               \/ tokenlist[1][i] \in {<< "(" >>, << ")" >>}
               \/ /\ ~HasParen(tokenlist[1][i])
                  /\ tokenlist[1][i] # << >>
                  /\ tokenlist[1][i][1] \in Letters
        /\ pgnstring = ParenExample =>
               \E i1, i2, i3, i4, i5 \in 1..Len(tokenlist[1]) :
                   /\ i1 < i2 /\ i2 < i3 /\ i3 < i4 /\ i4 < i5
                   /\ tokenlist[1][i1] = << "(" >>
                   /\ tokenlist[1][i2] = << "Q", "d", "2" >>
                   /\ tokenlist[1][i3] = << "R", "a", "e", "8" >>
                   /\ tokenlist[1][i4] = << ")" >>
                   /\ tokenlist[1][i5] = << "O", "-", "O" >>

\* C6: the tokenizer returns, in source order, the whitespace-separated bursts
\* with their leading run of characters that are neither a letter nor a
\* parenthesis removed, without the bursts that become empty; no token is
\* empty and every token begins with a letter or a parenthesis.
C6_TokensAreStrippedBursts ==
    pc = "tokenized" =>
        /\ tokenlist = Some(ExpectedTokens(pgnstring))
        /\ \A i \in 1..Len(tokenlist[1]) :
               /\ tokenlist[1][i] # << >>
               /\ tokenlist[1][i][1] \in LetterOrParen

C6_Witness ==
    /\ pc = "tokenized"
    /\ pgnstring = SeparatedNumberExample
    /\ tokenlist = Some(<< << "e", "4" >>, << "e", "5" >> >>)

(***************************************************************************)
(* Claims about the pipeline.                                              *)
(***************************************************************************)
\* text[start:end], by positions; end is None for "to the end of the text".
SliceByPositions(text, start, end) ==
    LET hi == IF end = None \/ end[1] > Len(text) THEN Len(text) ELSE end[1]
        n == IF hi > start[1] THEN hi - start[1] ELSE 0
    IN  [k \in 1..n |-> text[start[1] + k]]

\* r is s without its leading whitespace, and nothing else is removed.
IsLeftTrimOf(r, s) ==
    \E n \in 0..Len(s) :
        /\ \A i \in 1..n : s[i] \in Whitespace
        /\ r = SubSeq(s, n + 1, Len(s))
        /\ r = << >> \/ r[1] \notin Whitespace

ExtractOutcome ==
    /\ (pc # "extract" /\ start_index = None) =>
           /\ pc = "fault"
           /\ fault = Some([kind |-> "MissingHeaderSeparator", index |-> None])
           /\ movetext_string = None
    /\ (pc # "extract" /\ start_index # None) =>
           /\ movetext_string # None
           /\ IsLeftTrimOf(movetext_string[1],
                           SliceByPositions(string_read_from_file, start_index, end_index))
    /\ (fault # None /\ fault[1].kind = "MissingHeaderSeparator") => start_index = None

\* C8: with start none the extractor reports MissingHeaderSeparator and
\* returns nothing; otherwise it returns text[start:] (end none) or
\* text[start:end] with only the leading whitespace removed; no step changes
\* the source text.
C8_ExtractReturnsLeftTrimmedSlice ==
    /\ []ExtractOutcome
    /\ [][string_read_from_file' = string_read_from_file]_vars

C8_Witness ==
    /\ pc # "extract"
    /\ string_read_from_file = << "e", " ", " ", "e", " " >>
    /\ start_index = Some(1)
    /\ end_index = None
    /\ movetext_string = Some(<< "e", " " >>)

PipelineEnded == pc \in {"fault", "tokenized"}

\* C9: the pipeline reports EmptyMovetext exactly when the extracted and
\* brace-stripped movetext is the empty string, and then the tokenizer has not
\* run and no token list is returned.
C9_EmptyMovetextFault ==
    /\ PipelineEnded =>
           ((fault # None /\ fault[1].kind = "EmptyMovetext")
               <=> /\ movetext_string # None
                   /\ Balanced(movetext_string[1])
                   /\ TopLevelText(movetext_string[1]) = << >>)
    /\ (fault # None /\ fault[1].kind = "EmptyMovetext") =>
           /\ pc = "fault"
           /\ stripped_string = Some(<< >>)
           /\ tokenlist = None
    /\ pc \in {"tokenize", "tokenized"} =>
           /\ fault = None
           /\ stripped_string # None
           /\ stripped_string[1] # << >>

C9_Witness ==
    /\ pc = "fault"
    /\ string_read_from_file = << "e", " ", "{", "e", "}" >>
    /\ start_index = Some(1)
    /\ movetext_string = Some(<< "{", "e", "}" >>)
    /\ fault = Some([kind |-> "EmptyMovetext", index |-> None])
    /\ tokenlist = None

(***************************************************************************)
(* Claim about the scanner.                                                *)
(***************************************************************************)
\* Indices (0-based) at or after k that hold a brace.
BraceIndices(s, k) ==
    {j \in k..(Len(s) - 1) : s[j + 1] \in {left_brace, right_brace}}

ScanOutcome ==
    pc = "scan_returned" =>
        LET r == search_result[1]
            B == BraceIndices(string_to_scan, index_to_start_scan)
        IN  IF B = {}
            THEN r = [index_found |-> -1, is_right_brace |-> FALSE,
                      is_left_brace |-> FALSE]
            ELSE /\ r.index_found \in B
                 /\ \A j \in B : r.index_found <= j
                 /\ r.is_left_brace # r.is_right_brace
                 /\ r.is_left_brace <=> string_to_scan[r.index_found + 1] = left_brace
                 /\ r.is_right_brace <=> string_to_scan[r.index_found + 1] = right_brace

\* C10: the scanner returns the smallest index at or after the start offset
\* that holds a brace, with exactly one flag true, the one naming the character
\* there; with no such index it returns -1 and both flags false; the call
\* changes nothing but its own result.
C10_ScanFindsNearestBrace ==
    /\ []ScanOutcome
    /\ [][pc = "scan" =>
            UNCHANGED << string_to_scan, index_to_start_scan, pipelineVars, stripVars,
                         harnessVars, fault >>]_vars

C10_Witness ==
    /\ pc = "scan_returned"
    /\ string_to_scan = << "{", "a", "}", "{" >>
    /\ index_to_start_scan = 1
    /\ search_result = Some([index_found |-> 2, is_right_brace |-> TRUE,
                             is_left_brace |-> FALSE])

(***************************************************************************)
(* Claims about the stripper's outcome and its termination.                *)
(***************************************************************************)
HasExcessClose(s) == \E n \in 0..Len(s) : DepthAfter(s, n) < 0

\* C11: the stripper returns a string exactly when the braces of its input are
\* balanced; on an unbalanced input it reports one fault and returns nothing:
\* UnexpectedClosingDelimiter when some prefix has more '}' than '{',
\* UnmatchedOpeningDelimiter otherwise.
C11_SucceedsIffBalanced ==
    StripEnded =>
        /\ pc = "strip_returned" <=> Balanced(string_to_strip)
        /\ pc = "strip_returned" => (fault = None /\ stripped_string # None)
        /\ pc = "fault" =>
               /\ stripped_string = None
               /\ fault # None
               /\ fault[1].kind = IF HasExcessClose(string_to_strip)
                                  THEN "UnexpectedClosingDelimiter"
                                  ELSE "UnmatchedOpeningDelimiter"

C11_Witness ==
    /\ pc = "fault"
    /\ string_to_strip = << "{", "{", "}", "a" >>
    /\ ~Balanced(string_to_strip)
    /\ ~HasExcessClose(string_to_strip)
    /\ fault[1].kind = "UnmatchedOpeningDelimiter"
    /\ stripped_string = None

\* The cursors stay within the string; in the inner loop the depth is at least
\* 1 until it is 0 at the '}' that matches the top-level '{'.
LoopBounds ==
    /\ beginning_of_current_substring \in 0..Len(string_to_strip)
    /\ base_index_for_search \in 0..Len(string_to_strip)
    /\ pc = "skip" =>
           /\ net_left_braces >= 0
           /\ \A n \in index_after_first_left_brace..base_index_for_search :
                  n < base_index_for_search => DepthAfter(string_to_strip, n) >= 1
           /\ DepthAfter(string_to_strip, base_index_for_search) = net_left_braces
           /\ net_left_braces = 0 =>
                  /\ base_index_for_search = index_found + 1
                  /\ string_to_strip[index_found + 1] = right_brace

\* Every iteration of the inner loop advances the probe, every completed
\* iteration of the outer loop advances the cursor, and neither ever goes back.
LoopProgress ==
    /\ (pc = "skip" /\ pc' = "skip" /\ net_left_braces > 0) =>
           base_index_for_search' > base_index_for_search
    /\ (pc = "skip" /\ pc' = "outer") =>
           beginning_of_current_substring' > beginning_of_current_substring
    /\ base_index_for_search' >= base_index_for_search
    /\ beginning_of_current_substring' >= beginning_of_current_substring

\* C12: on every input the stripper terminates, with a result or a fault; the
\* outer cursor and the inner probe strictly increase with every loop iteration
\* and never exceed the length of the string, and the depth counter is at least
\* 1 in the inner loop until it is 0 at the matching '}'.
C12_StripTerminates ==
    /\ <>StripEnded
    /\ []LoopBounds
    /\ [][LoopProgress]_vars

C12_Witness ==
    /\ pc = "strip_returned"
    /\ string_to_strip = NestedExample
    /\ beginning_of_current_substring = 17
    /\ base_index_for_search = 17
    /\ net_left_braces = 0

=============================================================================
